---------------------------- MODULE Spec2Model ----------------------------
(***************************************************************************)
(* Server Health Sentinel.                                                 *)
(*                                                                         *)
(* Two programs share one model artifact:                                  *)
(*   src/App.py  the Gradio UI: a mode selector, five sliders, a button    *)
(*               and a periodic timer around predict_logic;                *)
(*   src/app.py  the Flask backend: POST /predict.                         *)
(* A behaviour of this module is a run of one of the two programs (app).   *)
(*                                                                         *)
(* Numbers.  Telemetry values are integers.  A probability is an integer   *)
(* count of 1/ProbUnit, so p = 0.80 is 80 * ProbUnit / 100.                *)
(***************************************************************************)
EXTENDS Integers, Sequences, FiniteSets, TLC

VARIABLES
    app,            \* which program runs: "App.py" (UI) or "app.py" (HTTP)
    artifact,       \* the file server_failure_model.pkl at process start
    proc,           \* the process: "starting", "serving" or "crashed"
    model,          \* the module-level model handle: "None" or "clf"
    mode,           \* mode_switch.value
    is_running,     \* gr.State is_running
    timer_active,   \* timer.active
    btn,            \* btn.value, the button label
    panels,         \* [sim |-> sim_panel.visible, live |-> live_panel.visible]
    sliders,        \* <<s_cpu, s_cpu_avg, s_ram, s_temp, s_change>>
    out,            \* [status, prob, readouts]: out_status, out_prob, l_*
    ticks_pending,  \* timer ticks emitted by the timer and not yet handled
    http_req,       \* the body of the last request of POST /predict
    http_resp,      \* the last response of POST /predict
    inflight,       \* the callbacks that have started and not yet returned
    log,            \* what the last handler did: its calls of get_live_metrics
                    \* and of the model, and the call whose result it returned
    scenario        \* position in the event sequence switch, start, stop, switch

vars == <<app, artifact, proc, model, mode, is_running, timer_active, btn, panels,
          sliders, out, ticks_pending, http_req, http_resp, inflight, log, scenario>>

-----------------------------------------------------------------------------
(* Bounds *)

\* a probability is a multiple of 1/ProbUnit
ProbUnit == 10000

\* timer ticks that may be waiting for their handler at once
MaxPendingTicks == 1

-----------------------------------------------------------------------------
(* Values *)

SIM  == "Simulation Mode"
LIVE == "Live System Monitor"

BTN_ANALYZE == "Analyze Simulation"
BTN_START   == "Start Live Monitoring"
BTN_STOP    == "Stop Live Monitoring"

\* the sensor groups get_live_metrics probes, in its order
SensorOrder == <<"k10temp", "amdgpu", "coretemp", "acpitz">>

\* the temperature used when no sensor is read
DefaultTemp == 50

\* the initial slider values
InitSliders == <<10, 10, 30, 50, 0>>

\* slider settings the user may choose
SliderInputs == { InitSliders, <<95, 90, 90, 95, 3>> }

\* What psutil reports at one call of get_live_metrics.  sensors.raises: the
\* call of sensors_temperatures fails; sensors.temps: group -> readings.
NoTemps == [g \in {} |-> <<>>]

LiveEnvs ==
    { [cpu |-> 7,  ram |-> 41, sensors |-> [raises |-> TRUE,  temps |-> NoTemps]],
      [cpu |-> 7,  ram |-> 41, sensors |-> [raises |-> FALSE, temps |-> NoTemps]],
      [cpu |-> 88, ram |-> 41, sensors |-> [raises |-> FALSE,
            temps |-> ("k10temp" :> <<62>>) @@ ("acpitz" :> <<45>>)]],
      [cpu |-> 88, ram |-> 41, sensors |-> [raises |-> FALSE,
            temps |-> ("amdgpu" :> <<70, 71>>) @@ ("coretemp" :> <<55>>)]],
      [cpu |-> 7,  ram |-> 41, sensors |-> [raises |-> FALSE,
            temps |-> ("coretemp" :> <<55>>) @@ ("acpitz" :> <<45>>)]],
      [cpu |-> 7,  ram |-> 41, sensors |-> [raises |-> FALSE,
            temps |-> ("acpitz" :> <<45>>)]],
      [cpu |-> 88, ram |-> 41, sensors |-> [raises |-> FALSE,
            temps |-> ("k10temp" :> <<>>) @@ ("amdgpu" :> <<70>>)]] }

\* what psutil may report at a start click: the failing read, a k10temp
\* reading, a k10temp group without entries (every case occurs at the ticks)
ClickEnvs ==
    { e \in LiveEnvs : e.sensors.raises \/ "k10temp" \in DOMAIN e.sensors.temps }

\* probabilities the model may return: both sides of each threshold
ProbVals ==
    { (ProbUnit \div 2) - 1, ProbUnit \div 2,
      (4 * ProbUnit) \div 5 - 1, (4 * ProbUnit) \div 5 }

\* One call of the model: predict_proba(...)[0][1] = p, or an exception.
Returns(p) == [exc |-> FALSE, msg |-> "", p |-> p]
Raises(msg) == [exc |-> TRUE, msg |-> msg, p |-> 0]

ModelOutcomes == { Returns(p) : p \in ProbVals } \cup { Raises("feature names mismatch") }

\* the model behind POST /predict: also p = 0.10 and p = 0.92
HttpOutcomes ==
    ModelOutcomes \cup { Returns(ProbUnit \div 10), Returns((92 * ProbUnit) \div 100) }

\* the environment and the outcome given to a handler that, by its branch,
\* neither reads psutil nor calls the model
NoEnv == [cpu |-> 0, ram |-> 0, sensors |-> [raises |-> TRUE, temps |-> NoTemps]]
NoOutcome == [exc |-> FALSE, msg |-> "", p |-> 0]


-----------------------------------------------------------------------------
(* src/App.py: helpers *)

\* the test of the model handle left out
ModelLoaded_unchecked(m) == TRUE

\* `if model:`
ModelLoaded(m) == m # "None"

\* the temperature lookup going on to the next group when one has no entries
SensorTemp_skips_empty(sensors) ==
    IF sensors.raises THEN DefaultTemp
    ELSE LET usable == { i \in 1..Len(SensorOrder) :
                           /\ SensorOrder[i] \in DOMAIN sensors.temps
                           /\ sensors.temps[SensorOrder[i]] # <<>> }
         IN  IF usable = {} THEN DefaultTemp
             ELSE LET first == CHOOSE i \in usable : \A j \in usable : i <= j
                  IN  sensors.temps[SensorOrder[first]][1]

\* the temperature lookup of get_live_metrics: the first present group's first
\* entry; a failing read (a raised call, a present group without entries)
\* leaves the default
SensorTemp(sensors) ==
    IF sensors.raises THEN DefaultTemp
    ELSE LET present == { i \in 1..Len(SensorOrder) :
                            SensorOrder[i] \in DOMAIN sensors.temps }
         IN  IF present = {} THEN DefaultTemp
             ELSE LET first == CHOOSE i \in present : \A j \in present : i <= j
                      entries == sensors.temps[SensorOrder[first]]
                  IN  IF entries = <<>> THEN DefaultTemp ELSE entries[1]

\* return cpu, cpu, ram, temp, 0.0
get_live_metrics(env) == <<env.cpu, env.cpu, env.ram, SensorTemp(env.sensors), 0>>

\* the record with gpu_temp copied from cpu_temp
InputDf_no_offset(cpu, cpu_avg, ram, temp, change) ==
    [ cpu_percent      |-> cpu,
      ram_percent      |-> ram,
      cpu_temp         |-> temp,
      gpu_temp         |-> temp,
      net_recv_bytes   |-> 1024,
      disk_write_bytes |-> 0,
      cpu_rolling_avg  |-> cpu_avg,
      ram_rolling_avg  |-> ram,
      cpu_temp_change  |-> change ]

\* the 9-column record handed to the model
InputDf(cpu, cpu_avg, ram, temp, change) ==
    [ cpu_percent      |-> cpu,
      ram_percent      |-> ram,
      cpu_temp         |-> temp,
      gpu_temp         |-> temp - 15,
      net_recv_bytes   |-> 1024,
      disk_write_bytes |-> 0,
      cpu_rolling_avg  |-> cpu_avg,
      ram_rolling_avg  |-> ram,
      cpu_temp_change  |-> change ]

\* prob_val >= pct / 100
AtLeast(p, pct) == 100 * p >= pct * ProbUnit

\* the styling logic with p = 0.80 left in the middle tier
Tier_above_80(p) ==
    IF 100 * p > 80 * ProbUnit THEN "CRITICAL FAILURE IMMINENT"
    ELSE IF AtLeast(p, 50) THEN "WARNING: ELEVATED RISK"
    ELSE "SYSTEM NORMAL"

\* the styling logic: the risk tier of a probability
Tier(p) ==
    IF AtLeast(p, 80) THEN "CRITICAL FAILURE IMMINENT"
    ELSE IF AtLeast(p, 50) THEN "WARNING: ELEVATED RISK"
    ELSE "SYSTEM NORMAL"

TierColor(p) ==
    IF AtLeast(p, 80) THEN "#ff0000"
    ELSE IF AtLeast(p, 50) THEN "#ffaa00"
    ELSE "#00cc00"

\* prob_val * 100 rounded to one decimal, as a count of tenths of a percent
\* (92.0 is 920); a tie goes to the even digit
Tenths(p) ==
    LET q == (1000 * p) \div ProbUnit
        r == (1000 * p) % ProbUnit
    IN  IF 2 * r > ProbUnit THEN q + 1
        ELSE IF 2 * r = ProbUnit THEN q + (q % 2)
        ELSE q

\* the values of out_status
StatusMissing    == [kind |-> "missing", text |-> "Model Missing", color |-> "grey"]
StatusTier(p)    == [kind |-> "tier", text |-> Tier(p), color |-> TierColor(p)]
StatusError(msg) == [kind |-> "error", text |-> msg, color |-> "red"]
StatusEmpty      == [kind |-> "empty", text |-> "", color |-> ""]

\* the values of out_prob
ProbMissing  == [fmt |-> "0%", tenths |-> 0]
ProbPct(p)   == [fmt |-> ".1f%", tenths |-> Tenths(p)]
ProbEmpty    == [fmt |-> "", tenths |-> 0]

\* a number set on a readout, and a readout never set
Shown(t) == [i \in 1..5 |-> <<t[i]>>]
InitReadouts == <<<<>>, <<>>, <<>>, <<>>, <<0>>>>

\* the calls one handler made
\* (envs: what psutil reported at each sampling; raised: an exception left
\* the callback)
NoCalls == [sampled |-> <<>>, envs |-> <<>>, inferred |-> <<>>, returned |-> <<>>,
            raised |-> FALSE]
JoinCalls(a, b) ==
    [ sampled  |-> a.sampled \o b.sampled,
      envs     |-> a.envs \o b.envs,
      inferred |-> a.inferred \o b.inferred,
      returned |-> a.returned \o b.returned,
      raised   |-> a.raised \/ b.raised ]

\* predict_logic with the model call outside any try: its exception leaves
\* the callback
predict_logic_no_try(m, md, sl, env, o) ==
    LET data == IF md = LIVE THEN get_live_metrics(env) ELSE sl
        df   == InputDf(data[1], data[2], data[3], data[4], data[5])
    IN  [ status   |-> IF ModelLoaded(m) /\ ~o.exc THEN StatusTier(o.p) ELSE StatusMissing,
          prob     |-> IF ModelLoaded(m) /\ ~o.exc THEN ProbPct(o.p) ELSE ProbMissing,
          readouts |-> Shown(data),
          calls    |-> [ sampled  |-> IF md = LIVE THEN <<data>> ELSE <<>>,
                         envs     |-> IF md = LIVE THEN <<env>> ELSE <<>>,
                         inferred |-> IF ModelLoaded(m) THEN <<df>> ELSE <<>>,
                         returned |-> IF ModelLoaded(m) THEN <<o>> ELSE <<>>,
                         raised   |-> ModelLoaded(m) /\ o.exc ] ]

\* predict_logic: (status_html, prob_str, cpu, cpu_avg, ram, temp, change).
\* env is what psutil reports if it is asked, o what the model does if it is
\* called.
predict_logic(m, md, sl, env, o) ==
    LET data == IF md = LIVE THEN get_live_metrics(env) ELSE sl
        df   == InputDf(data[1], data[2], data[3], data[4], data[5])
    IN  [ status   |-> IF ModelLoaded(m)
                       THEN IF o.exc THEN StatusError(o.msg) ELSE StatusTier(o.p)
                       ELSE StatusMissing,
          prob     |-> IF ModelLoaded(m) /\ ~o.exc THEN ProbPct(o.p) ELSE ProbMissing,
          readouts |-> Shown(data),
          calls    |-> [ sampled  |-> IF md = LIVE THEN <<data>> ELSE <<>>,
                         envs     |-> IF md = LIVE THEN <<env>> ELSE <<>>,
                         inferred |-> IF ModelLoaded(m) THEN <<df>> ELSE <<>>,
                         returned |-> IF ModelLoaded(m) THEN <<o>> ELSE <<>>,
                         \* the model call is inside try/except Exception
                         raised   |-> FALSE ] ]

-----------------------------------------------------------------------------
(* src/App.py: the UI callbacks, as functions of their inputs *)

\* toggle_ui_mode switching the timer on when Live is selected
toggle_ui_mode_live_activates(md) ==
    IF md = LIVE
    THEN [ panels |-> [sim |-> FALSE, live |-> TRUE],
           btn    |-> BTN_START,
           timer  |-> TRUE ]
    ELSE [ panels |-> [sim |-> TRUE, live |-> FALSE],
           btn    |-> BTN_ANALYZE,
           timer  |-> FALSE ]

\* toggle_ui_mode: updates of sim_panel, live_panel, btn and timer.  The
\* is_running state is not among the outputs of mode_switch.change.
toggle_ui_mode(md) ==
    IF md = LIVE
    THEN [ panels |-> [sim |-> FALSE, live |-> TRUE],
           btn    |-> BTN_START,
           timer  |-> FALSE ]
    ELSE [ panels |-> [sim |-> TRUE, live |-> FALSE],
           btn    |-> BTN_ANALYZE,
           timer  |-> FALSE ]

\* handle_button_click: skip is gr.skip() on the seven display outputs
handle_button_click(m, md, running, sl, env, o) ==
    IF md = SIM
    THEN LET r == predict_logic(m, md, sl, env, o)
         IN  [ skip |-> FALSE, status |-> r.status, prob |-> r.prob,
               readouts |-> r.readouts, is_running |-> FALSE,
               btn |-> BTN_ANALYZE, calls |-> r.calls ]
    ELSE IF ~running
    THEN LET r == predict_logic(m, md, sl, env, o)
         IN  [ skip |-> FALSE, status |-> r.status, prob |-> r.prob,
               readouts |-> r.readouts, is_running |-> TRUE,
               btn |-> BTN_STOP, calls |-> r.calls ]
    ELSE [ skip |-> TRUE, status |-> StatusEmpty, prob |-> ProbEmpty,
           readouts |-> InitReadouts, is_running |-> FALSE,
           btn |-> BTN_START, calls |-> NoCalls ]

\* predict_logic_wrapper with a stop branch that refreshes the display
predict_logic_wrapper_stop_refreshes(m, md, running, sl, env1, o1, env2, o2) ==
    LET r == predict_logic(m, md, sl, env2, o2)
    IN  IF md = SIM
        THEN [ skip |-> FALSE, status |-> r.status, prob |-> r.prob,
               readouts |-> r.readouts, is_running |-> FALSE,
               btn |-> BTN_ANALYZE, timer |-> FALSE,
               calls |-> JoinCalls(r.calls, r.calls), shown |-> r.calls ]
        ELSE IF running
        THEN [ skip |-> FALSE, status |-> r.status, prob |-> r.prob,
               readouts |-> r.readouts, is_running |-> FALSE,
               btn |-> BTN_START, timer |-> FALSE,
               calls |-> r.calls, shown |-> r.calls ]
        ELSE [ skip |-> FALSE, status |-> r.status, prob |-> r.prob,
               readouts |-> r.readouts, is_running |-> TRUE,
               btn |-> BTN_STOP, timer |-> TRUE,
               calls |-> JoinCalls(r.calls, r.calls), shown |-> r.calls ]

\* predict_logic_wrapper with a stop branch that leaves the timer active
predict_logic_wrapper_stop_keeps_timer(m, md, running, sl, env1, o1, env2, o2) ==
    LET r == predict_logic(m, md, sl, env2, o2)
    IN  IF md = SIM
        THEN [ skip |-> FALSE, status |-> r.status, prob |-> r.prob,
               readouts |-> r.readouts, is_running |-> FALSE,
               btn |-> BTN_ANALYZE, timer |-> FALSE,
               calls |-> JoinCalls(r.calls, r.calls), shown |-> r.calls ]
        ELSE IF running
        THEN [ skip |-> TRUE, status |-> StatusEmpty, prob |-> ProbEmpty,
               readouts |-> InitReadouts, is_running |-> FALSE,
               btn |-> BTN_START, timer |-> TRUE,
               calls |-> NoCalls, shown |-> NoCalls ]
        ELSE [ skip |-> FALSE, status |-> r.status, prob |-> r.prob,
               readouts |-> r.readouts, is_running |-> TRUE,
               btn |-> BTN_STOP, timer |-> TRUE,
               calls |-> JoinCalls(r.calls, r.calls), shown |-> r.calls ]

\* predict_logic_wrapper, the callback of btn.click.  It first calls
\* handle_button_click (env1, o1) and drops what that returns, then runs its
\* own branch (env2, o2).  calls holds the calls of both; shown, the calls of
\* the predict_logic whose result goes to the outputs.
predict_logic_wrapper(m, md, running, sl, env1, o1, env2, o2) ==
    LET results == handle_button_click(m, md, running, sl, env1, o1)
    IN  IF md = SIM
        THEN LET r == predict_logic(m, md, sl, env2, o2)
             IN  [ skip |-> FALSE, status |-> r.status, prob |-> r.prob,
                   readouts |-> r.readouts, is_running |-> FALSE,
                   btn |-> BTN_ANALYZE, timer |-> FALSE,
                   calls |-> JoinCalls(results.calls, r.calls), shown |-> r.calls ]
        ELSE IF running
        THEN [ skip |-> TRUE, status |-> StatusEmpty, prob |-> ProbEmpty,
               readouts |-> InitReadouts, is_running |-> FALSE,
               btn |-> BTN_START, timer |-> FALSE,
               calls |-> results.calls, shown |-> NoCalls ]
        ELSE LET r == predict_logic(m, md, sl, env2, o2)
             IN  [ skip |-> FALSE, status |-> r.status, prob |-> r.prob,
                   readouts |-> r.readouts, is_running |-> TRUE,
                   btn |-> BTN_STOP, timer |-> TRUE,
                   calls |-> JoinCalls(results.calls, r.calls), shown |-> r.calls ]

\* timer_tick that hands the slider defaults to predict_logic as simulation input
timer_tick_no_sample(m, md, running, env, o) ==
    IF md = LIVE /\ running
    THEN LET r == predict_logic(m, SIM, <<0, 0, 0, 0, 0>>, env, o)
         IN  [ skip |-> FALSE, status |-> r.status, prob |-> r.prob,
               readouts |-> r.readouts, calls |-> r.calls, shown |-> r.calls ]
    ELSE [ skip |-> TRUE, status |-> StatusEmpty, prob |-> ProbEmpty,
           readouts |-> InitReadouts, calls |-> NoCalls, shown |-> NoCalls ]

\* timer_tick without the test of is_running
timer_tick_any_live(m, md, running, env, o) ==
    IF md = LIVE
    THEN LET r == predict_logic(m, md, <<0, 0, 0, 0, 0>>, env, o)
         IN  [ skip |-> FALSE, status |-> r.status, prob |-> r.prob,
               readouts |-> r.readouts, calls |-> r.calls, shown |-> r.calls ]
    ELSE [ skip |-> TRUE, status |-> StatusEmpty, prob |-> ProbEmpty,
           readouts |-> InitReadouts, calls |-> NoCalls, shown |-> NoCalls ]

\* timer_tick, the callback of timer.tick
timer_tick(m, md, running, env, o) ==
    IF md = LIVE /\ running
    THEN LET r == predict_logic(m, md, <<0, 0, 0, 0, 0>>, env, o)
         IN  [ skip |-> FALSE, status |-> r.status, prob |-> r.prob,
               readouts |-> r.readouts, calls |-> r.calls, shown |-> r.calls ]
    ELSE [ skip |-> TRUE, status |-> StatusEmpty, prob |-> ProbEmpty,
           readouts |-> InitReadouts, calls |-> NoCalls, shown |-> NoCalls ]

\* the display after a callback returned r: gr.skip() leaves it as it was
Display(r, old) ==
    IF r.skip THEN old
    ELSE [status |-> r.status, prob |-> r.prob, readouts |-> r.readouts]

\* the record of a handler: how often it called get_live_metrics and the
\* model, and the calls of the predict_logic whose result it returned
Logged(ev, calls, shown) ==
    [ event    |-> ev,
      sampled  |-> Len(calls.sampled),
      inferred |-> Len(calls.inferred),
      raised   |-> calls.raised,
      shown    |-> shown ]

-----------------------------------------------------------------------------
(* src/app.py: POST /predict *)

\* a JSON number, and a JSON value float() rejects
Num(v) == [num |-> TRUE, v |-> v]
NotNum == [num |-> FALSE, v |-> 0]

NoFields == [k \in {} |-> NotNum]

\* request bodies: json is "object" (fields: key -> value), "null" (the body
\* is JSON but no object) or "invalid" (get_json fails)
HttpBodies ==
    { [json |-> "object", fields |->
            ("cpu_percent" :> Num(95)) @@ ("ram_percent" :> Num(90)) @@
            ("cpu_temp" :> Num(95)) @@ ("cpu_rolling_avg" :> Num(90)) @@
            ("cpu_temp_change" :> Num(3))],
      [json |-> "object", fields |-> ("cpu_percent" :> Num(5))],
      [json |-> "object", fields |-> NoFields],
      [json |-> "object", fields |-> ("cpu_temp" :> NotNum)],
      [json |-> "null", fields |-> NoFields],
      [json |-> "invalid", fields |-> NoFields] }

\* data.get falling back to the default for a value that is no number
Get_lenient(fields, key, default) ==
    IF key \in DOMAIN fields /\ fields[key].num THEN fields[key] ELSE Num(default)

\* data.get(key, default)
Get(fields, key, default) ==
    IF key \in DOMAIN fields THEN fields[key] ELSE Num(default)

\* model.predict(input_df)[0] of a classifier whose predict_proba gives p for
\* class 1: the class of the larger probability, class 0 on a tie
predict_class(p) == IF 2 * p > ProbUnit THEN 1 ELSE 0

\* 'CRITICAL' if prediction == 1 else 'NORMAL', with the labels swapped
StatusOf_swapped(prediction) == IF prediction = 1 THEN "NORMAL" ELSE "CRITICAL"

\* 'CRITICAL' if prediction == 1 else 'NORMAL'
StatusOf(prediction) == IF prediction = 1 THEN "CRITICAL" ELSE "NORMAL"

HttpError(c, msg) == [code |-> c, error |-> msg, status |-> "", probability |-> 0]
HttpOk(st, tenths) == [code |-> 200, error |-> "", status |-> st, probability |-> tenths]
NoResponse == [code |-> 0, error |-> "", status |-> "", probability |-> 0]

\* predict: the response, and the calls of the model
predict(m, body, o) ==
    IF ~ModelLoaded(m)
    THEN [resp |-> HttpError(500, "Model not loaded"), calls |-> NoCalls]
    ELSE IF body.json = "invalid"
    THEN [resp |-> HttpError(400, "get_json failed"), calls |-> NoCalls]
    ELSE IF body.json = "null"
    THEN [resp |-> HttpError(400, "NoneType has no attribute get"), calls |-> NoCalls]
    ELSE
      LET cpu      == Get(body.fields, "cpu_percent", 10)
          ram      == Get(body.fields, "ram_percent", 30)
          cpu_temp == Get(body.fields, "cpu_temp", 50)
          cpu_rolling     == Get(body.fields, "cpu_rolling_avg", cpu.v)
          cpu_temp_change == Get(body.fields, "cpu_temp_change", 0)
          input_df == [ cpu_percent      |-> cpu.v,
                        ram_percent      |-> ram.v,
                        cpu_temp         |-> cpu_temp.v,
                        gpu_temp         |-> cpu_temp.v - 15,
                        net_recv_bytes   |-> 1024,
                        disk_write_bytes |-> 0,
                        cpu_rolling_avg  |-> cpu_rolling.v,
                        ram_rolling_avg  |-> ram.v,
                        cpu_temp_change  |-> cpu_temp_change.v ]
      IN  IF ~(cpu.num /\ ram.num /\ cpu_temp.num /\ cpu_rolling.num
                /\ cpu_temp_change.num)
          THEN [resp |-> HttpError(400, "could not convert to float"), calls |-> NoCalls]
          ELSE IF o.exc
          THEN [ resp  |-> HttpError(400, o.msg),
                 calls |-> [sampled |-> <<>>, envs |-> <<>>,
                            inferred |-> <<input_df>>, returned |-> <<o>>,
                            raised |-> FALSE] ]
          ELSE [ resp  |-> HttpOk(StatusOf(predict_class(o.p)), Tenths(o.p)),
                 calls |-> [sampled |-> <<>>, envs |-> <<>>,
                            inferred |-> <<input_df, input_df>>, returned |-> <<o, o>>,
                            raised |-> FALSE] ]

-----------------------------------------------------------------------------
(* The state machine *)

\* Position in the event sequence SIMULATION -(switch)-> LIVE_IDLE -(start)->
\* LIVE_RUNNING -(stop)-> LIVE_IDLE -(switch)-> SIMULATION, counted in events
\* from the initial state; 5 once the session has left the sequence.
ScenarioNext(s, ev) ==
    IF ev = "switch" /\ s \in {0, 3} THEN s + 1
    ELSE IF ev = "click" /\ s \in {1, 2} THEN s + 1
    ELSE 5

\* What the file server_failure_model.pkl is at process start: "missing";
\* "valid" (joblib.load reads it); "pickle-only" (joblib.load raises,
\* pickle.load reads it); "corrupt" (both raise).
Artifacts == {"missing", "valid", "pickle-only", "corrupt"}

\* src/App.py, the module-level load: the model handle, or the exception of
\* pickle.load leaving the module
load_App(art) ==
    IF art = "missing" THEN [model |-> "None", crashed |-> FALSE]
    ELSE IF art = "valid" THEN [model |-> "clf", crashed |-> FALSE]
    ELSE IF art = "pickle-only" THEN [model |-> "clf", crashed |-> FALSE]
    ELSE [model |-> "None", crashed |-> TRUE]

\* src/app.py, load_model: joblib.load is not inside a try
load_model(art) ==
    IF art = "missing" THEN [model |-> "None", crashed |-> FALSE]
    ELSE IF art = "valid" THEN [model |-> "clf", crashed |-> FALSE]
    ELSE [model |-> "None", crashed |-> TRUE]

\* no callback has started
NoHandler == [busy |-> FALSE, mode |-> SIM, running |-> FALSE, sl |-> InitSliders,
              stopped |-> FALSE]
NoneInFlight == [click |-> NoHandler, tick |-> NoHandler]

\* no request was made
NoRequest == [json |-> "", fields |-> NoFields]

\* the program app has started and serves
Serving(a) == app = a /\ proc = "serving"

Init ==
    /\ app \in {"App.py", "app.py"}
    /\ artifact \in Artifacts
    /\ proc = "starting"
    /\ model = "None"
    /\ http_req = NoRequest
    /\ inflight = NoneInFlight
    /\ mode = SIM
    /\ is_running = FALSE
    /\ timer_active = FALSE
    /\ btn = BTN_ANALYZE
    /\ panels = [sim |-> TRUE, live |-> FALSE]
    /\ sliders = InitSliders
    /\ out = [status |-> StatusEmpty, prob |-> ProbEmpty, readouts |-> InitReadouts]
    /\ ticks_pending = 0
    /\ http_resp = NoResponse
    /\ log = Logged("init", NoCalls, NoCalls)
    /\ scenario = 0

\* process start: the model is loaded, then the UI or the server is launched
Start ==
    /\ proc = "starting"
    /\ LET r == IF app = "App.py" THEN load_App(artifact) ELSE load_model(artifact)
       IN  /\ model' = r.model
           /\ proc' = IF r.crashed THEN "crashed" ELSE "serving"
    /\ UNCHANGED <<app, artifact, mode, is_running, timer_active, btn, panels, sliders,
                   out, ticks_pending, http_req, http_resp, inflight, log, scenario>>

\* the user moves the sliders of the visible simulation panel
SetSliders ==
    /\ Serving("App.py")
    /\ panels.sim
    /\ \E sl \in SliderInputs \ {sliders} : sliders' = sl
    /\ UNCHANGED <<app, artifact, proc, model, inflight, mode, is_running, timer_active, btn, panels, out,
                   ticks_pending, http_req, http_resp, log, scenario>>

\* mode_switch.change: the user selects the other mode
ModeSwitch ==
    /\ Serving("App.py")
    /\ mode' = IF mode = SIM THEN LIVE ELSE SIM
    /\ LET r == toggle_ui_mode(mode')
       IN  /\ panels' = r.panels
           /\ btn' = r.btn
           /\ timer_active' = r.timer
    /\ log' = Logged("switch", NoCalls, NoCalls)
    /\ scenario' = ScenarioNext(scenario, "switch")
    /\ UNCHANGED <<app, artifact, proc, model, inflight, is_running, sliders, out, ticks_pending, http_req, http_resp>>

\* btn.click with what psutil reports and the model does at the calls of
\* handle_button_click (env1, o1) and of predict_logic_wrapper itself (env2, o2)
Click(env1, o1, env2, o2) ==
    /\ Serving("App.py")
    /\ LET r == predict_logic_wrapper(model, mode, is_running, sliders,
                                      env1, o1, env2, o2)
       IN  /\ out' = Display(r, out)
           /\ is_running' = r.is_running
           /\ btn' = r.btn
           /\ timer_active' = r.timer
           /\ log' = Logged("click", r.calls, r.shown)
    /\ scenario' = ScenarioNext(scenario, "click")
    /\ UNCHANGED <<app, artifact, proc, model, inflight, mode, panels, sliders, ticks_pending, http_req, http_resp>>

\* btn.click in Simulation mode: psutil is not read
ClickSimulation ==
    /\ mode = SIM
    /\ \E o1, o2 \in ModelOutcomes : Click(NoEnv, o1, NoEnv, o2)

\* btn.click in Live mode with is_running set: nothing is read or called
ClickStop ==
    /\ mode # SIM
    /\ is_running
    /\ Click(NoEnv, NoOutcome, NoEnv, NoOutcome)

\* btn.click in Live mode with is_running clear
ClickStart ==
    /\ mode # SIM
    /\ ~is_running
    /\ \E env1, env2 \in ClickEnvs, o1, o2 \in ModelOutcomes : Click(env1, o1, env2, o2)

BtnClick == ClickSimulation \/ ClickStop \/ ClickStart

\* the active timer emits a tick
TimerFire ==
    /\ Serving("App.py")
    /\ timer_active
    /\ ticks_pending < MaxPendingTicks
    /\ ticks_pending' = ticks_pending + 1
    /\ UNCHANGED <<app, artifact, proc, model, inflight, mode, is_running, timer_active, btn, panels,
                   sliders, out, http_req, http_resp, log, scenario>>

\* timer.tick: the handler of an emitted tick
TimerTick ==
    /\ Serving("App.py")
    /\ ticks_pending > 0
    /\ ticks_pending' = ticks_pending - 1
    /\ \E env \in LiveEnvs, o \in ModelOutcomes :
         LET r == timer_tick(model, mode, is_running, env, o)
         IN  /\ out' = Display(r, out)
             /\ log' = Logged("tick", r.calls, r.shown)
    /\ UNCHANGED <<app, artifact, proc, model, inflight, mode, is_running, timer_active, btn, panels,
                   sliders, http_req, http_resp, scenario>>

\* POST /predict
HttpPredict ==
    /\ Serving("app.py")
    /\ \E body \in HttpBodies, o \in HttpOutcomes :
         LET r == predict(model, body, o)
         IN  /\ http_req' = body
             /\ http_resp' = r.resp
             /\ log' = Logged("http", r.calls, r.calls)
    /\ UNCHANGED <<app, artifact, proc, model, inflight, mode, is_running, timer_active, btn, panels,
                   sliders, out, ticks_pending, scenario>>

Next ==
    \/ Start
    \/ SetSliders
    \/ ModeSwitch
    \/ BtnClick
    \/ TimerFire
    \/ TimerTick
    \/ HttpPredict

Spec == Init /\ [][Next]_vars

-----------------------------------------------------------------------------
(* src/App.py under the Gradio queue: a callback reads its inputs when it
   starts and writes its outputs when it returns.  Each event listener runs
   one call at a time (the default concurrency limit of a listener is 1), and
   btn.click and timer.tick are two listeners without a shared concurrency
   id, so a click callback and a tick callback can run at the same time. *)

\* what psutil reports and what the model does while two callbacks overlap
ConcEnvs == { e \in LiveEnvs : e.sensors.raises \/ "k10temp" \in DOMAIN e.sensors.temps }
ConcOutcomes == { Returns(p) : p \in {ProbUnit \div 10, (92 * ProbUnit) \div 100} }

\* the inputs a callback read when it started
Started(md, running, sl) ==
    [busy |-> TRUE, mode |-> md, running |-> running, sl |-> sl, stopped |-> FALSE]

\* btn.click: predict_logic_wrapper starts with the inputs of this moment
BeginClick ==
    /\ Serving("App.py")
    /\ ~inflight.click.busy
    /\ inflight' = [inflight EXCEPT !.click = Started(mode, is_running, sliders)]
    /\ UNCHANGED <<app, artifact, proc, model, mode, is_running, timer_active, btn, panels,
                   sliders, out, ticks_pending, http_req, http_resp, log, scenario>>

\* predict_logic_wrapper returns: its ten outputs are written.  A tick
\* callback still running when a stop click returns is marked.
EndClick ==
    /\ Serving("App.py")
    /\ inflight.click.busy
    /\ LET h == inflight.click
           stop == h.mode # SIM /\ h.running
       IN  /\ \E env1, env2 \in (IF h.mode = SIM \/ stop THEN {NoEnv} ELSE ConcEnvs),
                 o1, o2 \in (IF stop THEN {NoOutcome} ELSE ConcOutcomes) :
                 LET r == predict_logic_wrapper(model, h.mode, h.running, h.sl,
                                                env1, o1, env2, o2)
                 IN  /\ out' = Display(r, out)
                     /\ is_running' = r.is_running
                     /\ btn' = r.btn
                     /\ timer_active' = r.timer
                     /\ log' = Logged("click", r.calls, r.shown)
           /\ inflight' = [ click |-> [h EXCEPT !.busy = FALSE],
                            tick  |-> IF stop /\ inflight.tick.busy
                                      THEN [inflight.tick EXCEPT !.stopped = TRUE]
                                      ELSE inflight.tick ]
    /\ scenario' = ScenarioNext(scenario, "click")
    /\ UNCHANGED <<app, artifact, proc, model, mode, panels, sliders, ticks_pending,
                   http_req, http_resp>>

\* timer.tick: timer_tick starts with the inputs of this moment
BeginTick ==
    /\ Serving("App.py")
    /\ ticks_pending > 0
    /\ ~inflight.tick.busy
    /\ ticks_pending' = ticks_pending - 1
    /\ inflight' = [inflight EXCEPT !.tick = Started(mode, is_running, InitSliders)]
    /\ UNCHANGED <<app, artifact, proc, model, mode, is_running, timer_active, btn, panels,
                   sliders, out, http_req, http_resp, log, scenario>>

\* timer_tick returns: its seven outputs are written
EndTick ==
    /\ Serving("App.py")
    /\ inflight.tick.busy
    /\ LET h == inflight.tick
       IN  /\ \E env \in ConcEnvs, o \in ConcOutcomes :
                 LET r == timer_tick(model, h.mode, h.running, env, o)
                 IN  /\ out' = Display(r, out)
                     /\ log' = Logged("tick", r.calls, r.shown)
           /\ inflight' = [inflight EXCEPT !.tick = [h EXCEPT !.busy = FALSE]]
    /\ UNCHANGED <<app, artifact, proc, model, mode, is_running, timer_active, btn, panels,
                   sliders, ticks_pending, http_req, http_resp, scenario>>

InitConc == Init /\ app = "App.py"

NextConc ==
    \/ Start
    \/ SetSliders
    \/ ModeSwitch
    \/ BeginClick
    \/ EndClick
    \/ TimerFire
    \/ BeginTick
    \/ EndTick

SpecConc == InitConc /\ [][NextConc]_vars

-----------------------------------------------------------------------------
(* Properties *)

\* the session states of the state machine
LIVE_IDLE    == mode = LIVE /\ ~is_running /\ ~timer_active
LIVE_RUNNING == mode = LIVE /\ is_running

\* a handler that made no call of get_live_metrics and none of the model
NoCallsMade(l) == l.sampled = 0 /\ l.inferred = 0

\* C1: right after a mode switch to "Live System Monitor" the session is in
\* LIVE_IDLE: the timer is inactive and is_running is False.
C1_SwitchToLiveIsIdle ==
    (log.event = "switch" /\ mode = LIVE) => LIVE_IDLE

\* C2: a timer tick handled while is_running is False, in either mode, calls
\* neither get_live_metrics nor the model and leaves the seven display outputs
\* as they were.
C2_TickWhileNotRunning ==
    [][ (~is_running /\ TimerTick) => (NoCallsMade(log') /\ out' = out) ]_vars

\* a tick was handled in Live mode while monitoring was stopped, over a display
\* that already showed a result
C2_Witness ==
    /\ log.event = "tick"
    /\ mode = LIVE
    /\ ~is_running
    /\ NoCallsMade(log)
    /\ out.status.kind = "tier"

\* C3: a timer tick handled after a mode switch, with no click handled since,
\* is ignored: no call of get_live_metrics, none of the model, and the display
\* outputs stay as they were.
C3_StaleTickIgnored ==
    [][ (log.event = "switch" /\ TimerTick) => (NoCallsMade(log') /\ out' = out) ]_vars

\* C4: a click in Live mode while idle calls the model exactly once, on the
\* record assembled from a fresh sample of get_live_metrics, and leaves
\* is_running True and the timer active.
\* (The last handler was a click that left Live mode running: a start click.)
C4_StartClickInfersOnce ==
    (log.event = "click" /\ mode = LIVE /\ is_running /\ model # "None")
      => /\ log.inferred = 1
         /\ \E env \in LiveEnvs :
              LET smp == get_live_metrics(env)
              IN  /\ log.shown.sampled = <<smp>>
                  /\ log.shown.inferred =
                       <<InputDf(smp[1], smp[2], smp[3], smp[4], smp[5])>>
         /\ timer_active

\* C5: a click in Live mode while is_running is True sets is_running False and
\* deactivates the timer, calls neither get_live_metrics nor the model, and
\* leaves the seven display outputs as they were.
C5_StopClick ==
    [][ (mode = LIVE /\ is_running /\ BtnClick)
          => /\ ~is_running'
             /\ ~timer_active'
             /\ NoCallsMade(log')
             /\ out' = out ]_vars

\* monitoring was stopped by a click and the display still shows the last result
C5_Witness ==
    /\ log.event = "click"
    /\ mode = LIVE
    /\ ~is_running
    /\ ~timer_active
    /\ btn = BTN_START
    /\ out.status.kind = "tier"

\* C6: a click in Simulation mode calls the model exactly once, on the record
\* assembled from the five slider values as they are, never calls
\* get_live_metrics, and leaves is_running False and the timer inactive.
C6_SimulationClickInfersOnce ==
    [][ (mode = SIM /\ model # "None" /\ BtnClick)
          => /\ log'.inferred = 1
             /\ log'.sampled = 0
             /\ log'.shown.inferred =
                  <<InputDf(sliders[1], sliders[2], sliders[3], sliders[4], sliders[5])>>
             /\ ~is_running'
             /\ ~timer_active' ]_vars

\* C7: in the event sequence switch to Live, start click, stop click, switch to
\* Simulation, taken from the initial session state, the timer is inactive and
\* is_running is False in every state from the stop click onward.
C7_SequenceEndsIdle ==
    scenario \in {3, 4} => (~timer_active /\ ~is_running)

\* the sequence was run to its end, with a result on the display
C7_Witness ==
    /\ scenario = 4
    /\ mode = SIM
    /\ out.status.kind # "empty"

\* C8: in LIVE_RUNNING every handled timer tick calls get_live_metrics once,
\* runs predict_logic once on that sample (one call of the loaded model on the
\* record assembled from the sample; none when no model is loaded) and writes
\* the status, the probability and the five readouts of that run to the display.
C8_TickWhileRunning ==
    [][ (LIVE_RUNNING /\ TimerTick)
          => /\ log'.sampled = 1
             /\ \E env \in LiveEnvs :
                  LET smp == get_live_metrics(env)
                  IN  /\ log'.shown.sampled = <<smp>>
                      /\ out'.readouts = Shown(smp)
                      /\ model # "None" =>
                           log'.shown.inferred =
                             <<InputDf(smp[1], smp[2], smp[3], smp[4], smp[5])>>
             /\ log'.inferred = IF model # "None" THEN 1 ELSE 0
             /\ model # "None" =>
                  \E o \in ModelOutcomes :
                     /\ log'.shown.returned = <<o>>
                     /\ out'.status = IF o.exc THEN StatusError(o.msg) ELSE StatusTier(o.p)
                     /\ out'.prob = IF o.exc THEN ProbMissing ELSE ProbPct(o.p)
             /\ model = "None" =>
                  (out'.status = StatusMissing /\ out'.prob = ProbMissing) ]_vars

\* a tick was handled while running and the display shows the tier of its sample
C8_Witness ==
    /\ log.event = "tick"
    /\ LIVE_RUNNING
    /\ log.sampled = 1
    /\ log.inferred = 1
    /\ out.status.kind = "tier"
    /\ out.readouts[4] # <<DefaultTemp>>

\* C9: the tier shown for a returned probability p is CRITICAL exactly when
\* p >= 0.80, ELEVATED exactly when 0.50 <= p < 0.80 and NORMAL exactly when
\* p < 0.50, and it is exactly one of the three.
C9_TierPartition ==
    \A o \in ModelOutcomes :
        (log.event \in {"click", "tick"} /\ log.shown.returned = <<o>> /\ ~o.exc)
          => LET t == out.status.text
             IN  /\ out.status.kind = "tier"
                 /\ t \in {"CRITICAL FAILURE IMMINENT", "WARNING: ELEVATED RISK",
                           "SYSTEM NORMAL"}
                 /\ (t = "CRITICAL FAILURE IMMINENT") <=> (5 * o.p >= 4 * ProbUnit)
                 /\ (t = "WARNING: ELEVATED RISK")
                      <=> (2 * o.p >= ProbUnit /\ 5 * o.p < 4 * ProbUnit)
                 /\ (t = "SYSTEM NORMAL") <=> (2 * o.p < ProbUnit)

\* the model returned p = 0.80 and the display shows CRITICAL
C9_Witness ==
    /\ log.event \in {"click", "tick"}
    /\ log.shown.returned = <<Returns((4 * ProbUnit) \div 5)>>
    /\ 5 * ((4 * ProbUnit) \div 5) = 4 * ProbUnit
    /\ out.status.text = "CRITICAL FAILURE IMMINENT"

\* C10: with no model loaded, every prediction of the UI (a Simulation click, a
\* start click, a tick while running) returns the "Model Missing" status with
\* "0%" without a call of the model, the session state changes as with a
\* model, and POST /predict answers 500 "Model not loaded" without a call of
\* the model.
C10_NoModel ==
    [][ model = "None" =>
          /\ (mode = SIM /\ BtnClick) =>
                /\ out'.status = StatusMissing /\ out'.prob = ProbMissing
                /\ out'.readouts = Shown(sliders)
                /\ log'.inferred = 0
                /\ ~is_running' /\ ~timer_active'
          /\ (mode = LIVE /\ ~is_running /\ BtnClick) =>
                /\ out'.status = StatusMissing /\ out'.prob = ProbMissing
                /\ log'.inferred = 0
                /\ is_running' /\ timer_active' /\ btn' = BTN_STOP
          /\ (mode = LIVE /\ is_running /\ BtnClick) =>
                /\ out' = out
                /\ ~is_running' /\ ~timer_active' /\ btn' = BTN_START
          /\ (LIVE_RUNNING /\ TimerTick) =>
                /\ out'.status = StatusMissing /\ out'.prob = ProbMissing
                /\ log'.inferred = 0
          /\ HttpPredict =>
                /\ http_resp' = HttpError(500, "Model not loaded")
                /\ log'.inferred = 0 ]_vars

\* without a model, live monitoring was started and shows "Model Missing"
C10_Witness ==
    /\ model = "None"
    /\ LIVE_RUNNING
    /\ timer_active
    /\ out.status = StatusMissing
    /\ out.prob = ProbMissing
    /\ log.sampled > 0

\* C11: a model artifact that is missing or that cannot be loaded never stops
\* the process from starting: once started, the process serves with the model
\* handle unset, and every prediction gives the "model unavailable" outcome.
C11_LoadFailureIsNotFatal ==
    (artifact \in {"missing", "corrupt"} /\ proc # "starting")
      => /\ proc = "serving"
         /\ model = "None"
         /\ out.status \in {StatusEmpty, StatusMissing}
         /\ http_resp.code \in {0, 500}

\* C12: an exception of the model's inference call is caught and returned as
\* an error value with its message (the inline error status in the UI, an
\* error body with HTTP 400 on the endpoint); it does not leave the callback,
\* and the process goes on serving.
C12_InferenceErrorContained ==
    (log.shown.returned # <<>> /\ log.shown.returned[1].exc)
      => LET msg == log.shown.returned[1].msg
         IN  /\ ~log.raised
             /\ proc = "serving"
             /\ log.event \in {"click", "tick"} =>
                  /\ out.status.kind = "error"
                  /\ out.status.text = msg
                  /\ out.readouts = Shown(IF log.shown.sampled # <<>>
                                          THEN log.shown.sampled[1]
                                          ELSE <<out.readouts[1][1], out.readouts[2][1],
                                                 out.readouts[3][1], out.readouts[4][1],
                                                 out.readouts[5][1]>>)
             /\ log.event = "http" =>
                  /\ http_resp.code = 400
                  /\ http_resp.error = msg

\* the model raised at a tick and the display shows the error inline
C12_Witness ==
    /\ log.event = "tick"
    /\ log.shown.returned = <<Raises("feature names mismatch")>>
    /\ out.status.kind = "error"
    /\ is_running

\* the keys POST /predict reads
HttpKeys == {"cpu_percent", "ram_percent", "cpu_temp", "cpu_rolling_avg", "cpu_temp_change"}

\* a request body that is no JSON object or holds a value that is no number
Malformed(body) ==
    \/ body.json # "object"
    \/ \E k \in HttpKeys \cap DOMAIN body.fields : ~body.fields[k].num

\* C13: POST /predict answers 500 with an error whenever the model is not
\* loaded, whatever the body; 400 with an error when the model is loaded and
\* the body is malformed or the inference fails; 200 with a status and a
\* probability otherwise.
C13_ThreeOutcomes ==
    log.event = "http" =>
      LET failed == log.shown.returned # <<>> /\ log.shown.returned[1].exc
      IN  /\ http_resp.code \in {200, 400, 500}
          /\ model = "None" =>
               (http_resp.code = 500 /\ http_resp.error # "" /\ http_resp.status = "")
          /\ (model # "None" /\ (Malformed(http_req) \/ failed)) =>
               (http_resp.code = 400 /\ http_resp.error # "" /\ http_resp.status = "")
          /\ (model # "None" /\ ~Malformed(http_req) /\ ~failed) =>
               /\ http_resp.code = 200
               /\ http_resp.error = ""
               /\ http_resp.status \in {"CRITICAL", "NORMAL"}
               /\ http_resp.probability \in 0..1000

\* a malformed body was answered 400 by a server with a model
C13_Witness ==
    /\ log.event = "http"
    /\ model # "None"
    /\ http_req.json = "object"
    /\ Malformed(http_req)
    /\ http_resp.code = 400

\* the value of a key of the last request, or its default
Field(k, d) == IF k \in DOMAIN http_req.fields THEN http_req.fields[k].v ELSE d

\* the feature record the claim describes for the input <<cpu, cpu_avg, ram,
\* temp, change>>
Features(d) ==
    [ cpu_percent      |-> d[1],
      cpu_rolling_avg  |-> d[2],
      ram_percent      |-> d[3],
      ram_rolling_avg  |-> d[3],
      cpu_temp         |-> d[4],
      gpu_temp         |-> d[4] - 15,
      cpu_temp_change  |-> d[5],
      net_recv_bytes   |-> 1024,
      disk_write_bytes |-> 0 ]

\* C14: on both paths the record handed to the model has gpu_temp = cpu_temp
\* - 15, ram_rolling_avg = ram_percent, net_recv_bytes = 1024 and
\* disk_write_bytes = 0, and the other five fields copied from the input (the
\* live sample, the displayed slider values, the request with its defaults).
C14_FeatureRecord ==
    \A i \in 1..Len(log.shown.inferred) :
      LET df == log.shown.inferred[i]
          input ==
            IF log.event = "http"
            THEN <<Field("cpu_percent", 10),
                   Field("cpu_rolling_avg", Field("cpu_percent", 10)),
                   Field("ram_percent", 30), Field("cpu_temp", 50),
                   Field("cpu_temp_change", 0)>>
            ELSE IF log.shown.sampled # <<>> THEN log.shown.sampled[1]
            ELSE <<out.readouts[1][1], out.readouts[2][1], out.readouts[3][1],
                   out.readouts[4][1], out.readouts[5][1]>>
      IN  /\ df = Features(input)
          /\ df.gpu_temp = df.cpu_temp - 15
          /\ df.ram_rolling_avg = df.ram_percent

\* a Simulation click handed the model the sliders' 95 degrees as cpu_temp and
\* 80 as gpu_temp
C14_Witness ==
    /\ log.event = "click"
    /\ mode = SIM
    /\ log.shown.inferred # <<>>
    /\ log.shown.inferred[1].cpu_temp = 95
    /\ log.shown.inferred[1].gpu_temp = 80
    /\ log.shown.inferred[1].cpu_percent = 95
    /\ log.shown.inferred[1].cpu_rolling_avg = 90

\* the first reading of a group, 50 when the group has none
FirstOrDefault(entries) == IF entries = <<>> THEN 50 ELSE entries[1]

\* the temperature the claim describes
ExpectedTemp(sensors) ==
    IF sensors.raises THEN 50
    ELSE IF "k10temp" \in DOMAIN sensors.temps THEN FirstOrDefault(sensors.temps["k10temp"])
    ELSE IF "amdgpu" \in DOMAIN sensors.temps THEN FirstOrDefault(sensors.temps["amdgpu"])
    ELSE IF "coretemp" \in DOMAIN sensors.temps THEN FirstOrDefault(sensors.temps["coretemp"])
    ELSE IF "acpitz" \in DOMAIN sensors.temps THEN FirstOrDefault(sensors.temps["acpitz"])
    ELSE 50

\* C15: the sampled temperature is the first reading of the first present
\* group in the order k10temp, amdgpu, coretemp, acpitz; it is 50 when no group
\* is present or the read fails (a present group without entries included),
\* and the failure does not leave the callback.
C15_SensorFallback ==
    \A i \in 1..Len(log.shown.envs) :
      /\ log.shown.sampled[i][4] = ExpectedTemp(log.shown.envs[i].sensors)
      /\ log.shown.sampled[i][1] = log.shown.envs[i].cpu
      /\ log.shown.sampled[i][3] = log.shown.envs[i].ram
      /\ ~log.raised
      /\ out.readouts[4] = <<log.shown.sampled[i][4]>>

\* k10temp was present without entries while amdgpu had a reading: 50 is shown
C15_Witness ==
    /\ log.event = "tick"
    /\ log.shown.envs # <<>>
    /\ ~log.shown.envs[1].sensors.raises
    /\ "k10temp" \in DOMAIN log.shown.envs[1].sensors.temps
    /\ log.shown.envs[1].sensors.temps["k10temp"] = <<>>
    /\ "amdgpu" \in DOMAIN log.shown.envs[1].sensors.temps
    /\ out.readouts[4] = <<50>>

ClickInferring ==
    /\ inflight.click.busy
    /\ model # "None"
    /\ inflight.click.mode = SIM \/ ~inflight.click.running

\* a tick callback that runs an inference is under way
TickInferring ==
    /\ inflight.tick.busy
    /\ model # "None"
    /\ inflight.tick.mode = LIVE /\ inflight.tick.running

\* the tick callback that returned last had started while running, and a stop
\* click returned while it ran
LateTick ==
    /\ log.event = "tick"
    /\ ~inflight.tick.busy
    /\ inflight.tick.mode = LIVE /\ inflight.tick.running
    /\ inflight.tick.stopped

\* C17: within a session at most one inference is in flight at any time, and
\* a tick callback that started while running does not update the display
\* once a stop click has completed.
C17_OneInferenceInFlight ==
    /\ ~(ClickInferring /\ TickInferring)
    /\ LateTick => log.shown = NoCalls

C19_LabelMatchesRunning ==
    mode = LIVE => ((btn = BTN_STOP) <=> is_running)

=============================================================================
